---- MODULE Spec2Model ----
(***************************************************************************)
(* Handshake and message envelope of the small_network component           *)
(* (node/src/components/small_network/message.rs).                         *)
(*                                                                         *)
(* Two specifications share the module:                                    *)
(*   Spec         concurrent handshakes that share one ConsensusKeyPair:   *)
(*                create, send, transport/replay, receive and validate.    *)
(*   MessageSpec  the operations on Message and ConsensusCertificate       *)
(*                values (serialize, deserialize, classify) applied to     *)
(*                inputs drawn from bounded sets.                          *)
(***************************************************************************)
EXTENDS Integers, Sequences, FiniteSets, TLC

(***************************************************************************)
(* Bounds of the model.                                                    *)
(***************************************************************************)
\* Number of connection identifiers the transport can mint.
NumConnections == 3
\* Number of distinct secret keys.
NumSecretKeys == 2
\* Bytes of key material in a public key (32 or 33 in the program).
KeyLen == 1
\* Bytes of a connection identifier.
IdLen == 1
\* Largest value the fields of PayloadWeights take.
MaxWeight == 2

(***************************************************************************)
(* Text: a string is a sequence of one-character strings.                  *)
(***************************************************************************)
HexDigits == <<"0", "1", "2", "3", "4", "5", "6", "7",
               "8", "9", "a", "b", "c", "d", "e", "f">>

UpperLetters == {"A", "B", "C", "D", "E", "F", "G"}

LowerLetters == {"a", "b", "c", "d", "e", "f", "g"}

\* char::to_lowercase on the characters the model uses.
LowerChar(c) ==
    CASE c = "A" -> "a" [] c = "B" -> "b" [] c = "C" -> "c"
      [] c = "D" -> "d" [] c = "E" -> "e" [] c = "F" -> "f"
      [] c = "G" -> "g" [] OTHER -> c

\* char::to_uppercase on the characters the model uses.
UpperChar(c) ==
    CASE c = "a" -> "A" [] c = "b" -> "B" [] c = "c" -> "C"
      [] c = "d" -> "D" [] c = "e" -> "E" [] c = "f" -> "F"
      [] c = "g" -> "G" [] OTHER -> c

\* str::to_lowercase, as called at every hex conversion of the certificate.
to_lowercase(s) == [i \in 1..Len(s) |-> LowerChar(s[i])]

IsHexChar(c) == \E n \in 1..16 : HexDigits[n] = LowerChar(c)

HexValue(c) == (CHOOSE n \in 1..16 : HexDigits[n] = LowerChar(c)) - 1

HasUpper(s) == \E i \in 1..Len(s) : s[i] \in UpperLetters

HasLower(s) == \E i \in 1..Len(s) : s[i] \in LowerLetters

RECURSIVE SumSeq(_)
SumSeq(s) == IF s = <<>> THEN 0 ELSE Head(s) + SumSeq(Tail(s))

(***************************************************************************)
(* Hex encodings of casper_types.                                          *)
(***************************************************************************)
\* base16 lower-case encoding of a byte string.
Base16Lower(bytes) ==
    [i \in 1..(2 * Len(bytes)) |->
        IF i % 2 = 1
        THEN HexDigits[(bytes[(i + 1) \div 2] \div 16) + 1]
        ELSE HexDigits[(bytes[i \div 2] % 16) + 1]]

\* The case bit the checksum assigns to position i. The two styles are the
\* checksummed-hex of casper-node 1.4.2 ("v142") and of later versions
\* ("current"); they disagree on some letters of every byte string.
ChecksumBit(bytes, i, style) ==
    IF style = "current"
    THEN (SumSeq(bytes) + i) % 2 = 1
    ELSE (SumSeq(bytes) + i) % 3 = 0

\* checksummed_hex::encode in the given style.
ChecksummedHex(bytes, style) ==
    LET lower == Base16Lower(bytes)
    IN  [i \in 1..Len(lower) |->
            IF ChecksumBit(bytes, i, style) THEN UpperChar(lower[i]) ELSE lower[i]]

\* base16 decoding, case-insensitive; fails on odd length or a non-hex character.
Base16Decode(s) ==
    IF Len(s) % 2 # 0 \/ \E i \in 1..Len(s) : ~IsHexChar(s[i])
    THEN [ok |-> FALSE, err |-> "invalid hex"]
    ELSE [ok |-> TRUE,
          bytes |-> [k \in 1..(Len(s) \div 2) |->
                        16 * HexValue(s[2 * k - 1]) + HexValue(s[2 * k])]]

\* checksummed_hex::decode of the current version: a string in a single case
\* carries no checksum; a mixed-case string must be the current-style
\* checksummed encoding of its bytes.
VerifyChecksum(s, raw) ==
    IF ~raw.ok THEN raw
    ELSE IF HasUpper(s) /\ HasLower(s) /\ s # ChecksummedHex(raw.bytes, "current")
    THEN [ok |-> FALSE, err |-> "invalid checksum"]
    ELSE raw

ChecksummedHexDecode(s) == VerifyChecksum(s, Base16Decode(s))

(***************************************************************************)
(* Keys and signatures.                                                    *)
(***************************************************************************)
\* Algorithm tags of PublicKey / Signature: 1 = Ed25519, 2 = Secp256k1.
KeyTags == {1, 2}

\* A secret key: its algorithm tag and its key material.
SecretKeys == {[tag |-> 1 + (seed % 2), seed |-> seed] : seed \in 1..NumSecretKeys}

\* PublicKey::from(&secret_key): injective in the secret key.
PublicKeyFrom(sk) ==
    [tag |-> sk.tag,
     bytes |-> [i \in 1..KeyLen |-> (160 + 16 * sk.tag + 11 * sk.seed + i) % 256]]

PublicKeys == {PublicKeyFrom(sk) : sk \in SecretKeys}

\* crypto::sign: an ideal signature, a function of the secret key and the message
\* that no other (key, message) yields.
crypto_sign(value, secret_key, public_key) ==
    [tag |-> secret_key.tag,
     bytes |-> [i \in 1..KeyLen |-> (192 + 13 * secret_key.seed + i) % 256] \o value]

\* crypto::verify: Ok exactly for the signature the owner of public_key produces
\* over the message.
crypto_verify(value, signature, public_key) ==
    IF \E sk \in SecretKeys :
          /\ PublicKeyFrom(sk) = public_key
          /\ crypto_sign(value, sk, public_key) = signature
    THEN [ok |-> TRUE]
    ELSE [ok |-> FALSE, err |-> "signature verification failed"]

\* AsymmetricType::to_hex: checksummed hex of tag byte and key bytes.
to_hex(v) == ChecksummedHex(<<v.tag>> \o v.bytes, "current")

\* to_hex as casper-node 1.4.2 emitted it.
to_hex_v1_4_2(v) == ChecksummedHex(<<v.tag>> \o v.bytes, "v142")

\* Length in bytes of a signature's data.
SigLen == KeyLen + IdLen

\* A key or signature from its bytes: split off the tag, check the tag and the
\* length of the data.
TaggedFromBytes(b, len) ==
    IF b = <<>> THEN [ok |-> FALSE, err |-> "empty"]
    ELSE IF Head(b) \notin KeyTags THEN [ok |-> FALSE, err |-> "invalid tag"]
    ELSE IF Len(b) # len + 1 THEN [ok |-> FALSE, err |-> "invalid length"]
    ELSE [ok |-> TRUE, value |-> [tag |-> Head(b), bytes |-> Tail(b)]]

TaggedFromDecoded(raw, len) ==
    IF ~raw.ok THEN raw ELSE TaggedFromBytes(raw.bytes, len)

\* Shared by PublicKey::from_hex and Signature::from_hex: decode the hex, then read
\* the bytes.
TaggedFromHex(s, len) == TaggedFromDecoded(ChecksummedHexDecode(s), len)

PublicKey_from_hex(s) == TaggedFromHex(s, KeyLen)

Signature_from_hex(s) == TaggedFromHex(s, SigLen)

\* Native binary form of a key or signature: tag byte, then the data.
to_bytes(v) == <<v.tag>> \o v.bytes


(***************************************************************************)
(* Connection identifiers.                                                 *)
(***************************************************************************)
ConnectionIds == 1..NumConnections

\* ConnectionId::as_bytes.
as_bytes(connection_id) == [i \in 1..IdLen |-> (16 * connection_id + 9 + i) % 256]

(***************************************************************************)
(* ConsensusKeyPair and ConsensusCertificate.                              *)
(***************************************************************************)
\* ConsensusKeyPair::new: stores both keys as given, unchecked.
new(secret_key, public_key) == [secret_key |-> secret_key, public_key |-> public_key]

KeyPairs == {new(sk, pk) : sk \in SecretKeys, pk \in PublicKeys}

\* ConsensusKeyPair::sign.
sign(key_pair, value) == crypto_sign(value, key_pair.secret_key, key_pair.public_key)

\* create signing the bytes of its own public key instead of the connection
\* identifier's.
create_signs_public_key(connection_id, key_pair) ==
    LET signature == sign(key_pair, key_pair.public_key.bytes)
    IN  [public_key |-> key_pair.public_key, signature |-> signature]

\* ConsensusCertificate::create.
create(connection_id, key_pair) ==
    LET signature == sign(key_pair, as_bytes(connection_id))
    IN  [public_key |-> key_pair.public_key, signature |-> signature]

OkPublicKeyOrError(verified, public_key) ==
    IF ~verified.ok THEN verified ELSE [ok |-> TRUE, public_key |-> public_key]

\* validate verifying over the bytes of a fixed connection identifier, not of the
\* one it is given.
validate_fixed_connection(self, connection_id) ==
    OkPublicKeyOrError(crypto_verify(as_bytes(1), self.signature, self.public_key),
                       self.public_key)

\* validate with the `?` dropped: the verification result is ignored.
validate_unchecked(self, connection_id) ==
    [ok |-> TRUE, public_key |-> self.public_key]

\* ConsensusCertificate::validate: the verification error is propagated by `?`,
\* otherwise the embedded public key is returned.
validate(self, connection_id) ==
    OkPublicKeyOrError(
        crypto_verify(as_bytes(connection_id), self.signature, self.public_key),
        self.public_key)

(***************************************************************************)
(* Wire values of the serde data model as rmp/json/bincode carry them:     *)
(*   [t |-> "nil"], [t |-> "str", v |-> chars], [t |-> "bin", v |-> bytes],*)
(*   [t |-> "arr", v |-> sequence of wire values].                         *)
(* A struct is the array of its fields in declaration order.               *)
(***************************************************************************)
WNil == [t |-> "nil", v |-> <<>>]

WStr(s) == [t |-> "str", v |-> s]

WBin(b) == [t |-> "bin", v |-> b]

WArr(a) == [t |-> "arr", v |-> a]

None == <<>>

Some(x) == <<x>>

\* #[derive(Serialize)] struct HumanReadableCertificate.
HumanReadableCertificate_serialize(hrc) ==
    WArr(<<WStr(hrc.public_key), WStr(hrc.signature)>>)

\* #[derive(Deserialize)] struct HumanReadableCertificate: two string fields.
HumanReadableCertificate_deserialize(w) ==
    IF w.t # "arr" THEN [ok |-> FALSE, err |-> "invalid type"]
    ELSE IF Len(w.v) < 2 THEN [ok |-> FALSE, err |-> "invalid length"]
    ELSE IF w.v[1].t # "str" \/ w.v[2].t # "str" THEN [ok |-> FALSE, err |-> "invalid type"]
    ELSE [ok |-> TRUE, value |-> [public_key |-> w.v[1].v, signature |-> w.v[2].v]]

\* The two fields of a certificate, or the first error met reading them.
BothFields(public_key, signature) ==
    IF ~public_key.ok THEN public_key
    ELSE IF ~signature.ok THEN signature
    ELSE [ok |-> TRUE,
          value |-> [public_key |-> public_key.value, signature |-> signature.value]]

\* #[derive(Serialize)] struct NonHumanReadableCertificate: native bytes.
NonHumanReadableCertificate_serialize(c) ==
    WArr(<<WBin(to_bytes(c.public_key)), WBin(to_bytes(c.signature))>>)

\* #[derive(Deserialize)] struct NonHumanReadableCertificate.
NonHumanReadableCertificate_deserialize(w) ==
    IF w.t # "arr" THEN [ok |-> FALSE, err |-> "invalid type"]
    ELSE IF Len(w.v) < 2 THEN [ok |-> FALSE, err |-> "invalid length"]
    ELSE IF w.v[1].t # "bin" \/ w.v[2].t # "bin" THEN [ok |-> FALSE, err |-> "invalid type"]
    ELSE BothFields(TaggedFromBytes(w.v[1].v, KeyLen), TaggedFromBytes(w.v[2].v, SigLen))

\* serialize with the signature field filled from the public key.
serialize_public_key_twice(self, is_human_readable) ==
    IF is_human_readable
    THEN HumanReadableCertificate_serialize(
            [public_key |-> to_lowercase(to_hex(self.public_key)),
             signature |-> to_lowercase(to_hex(self.public_key))])
    ELSE NonHumanReadableCertificate_serialize(
            [public_key |-> self.public_key, signature |-> self.public_key])

\* serialize without to_lowercase: the checksummed hex of to_hex goes out as it is.
serialize_checksummed(self, is_human_readable) ==
    IF is_human_readable
    THEN HumanReadableCertificate_serialize(
            [public_key |-> to_hex(self.public_key),
             signature |-> to_hex(self.signature)])
    ELSE NonHumanReadableCertificate_serialize(
            [public_key |-> self.public_key, signature |-> self.signature])

\* impl Serialize for ConsensusCertificate.
serialize(self, is_human_readable) ==
    IF is_human_readable
    THEN HumanReadableCertificate_serialize(
            [public_key |-> to_lowercase(to_hex(self.public_key)),
             signature |-> to_lowercase(to_hex(self.signature))])
    ELSE NonHumanReadableCertificate_serialize(
            [public_key |-> self.public_key, signature |-> self.signature])

\* impl Deserialize for ConsensusCertificate.
\* The human-readable branch without to_lowercase on the received strings.
FromHumanReadable_case_sensitive(human_readable_certificate) ==
    IF ~human_readable_certificate.ok THEN human_readable_certificate
    ELSE BothFields(
            PublicKey_from_hex(human_readable_certificate.value.public_key),
            Signature_from_hex(human_readable_certificate.value.signature))

\* The human-readable branch of deserialize, given the decoded mirror struct.
FromHumanReadable(human_readable_certificate) ==
    IF ~human_readable_certificate.ok THEN human_readable_certificate
    ELSE BothFields(
            PublicKey_from_hex(to_lowercase(human_readable_certificate.value.public_key)),
            Signature_from_hex(to_lowercase(human_readable_certificate.value.signature)))

\* The non-human-readable branch of deserialize, given the decoded mirror struct.
FromNonHumanReadable(non_human_readable_certificate) ==
    IF ~non_human_readable_certificate.ok THEN non_human_readable_certificate
    ELSE [ok |-> TRUE,
          value |-> [public_key |-> non_human_readable_certificate.value.public_key,
                     signature |-> non_human_readable_certificate.value.signature]]

deserialize(w, is_human_readable) ==
    IF is_human_readable
    THEN FromHumanReadable(HumanReadableCertificate_deserialize(w))
    ELSE FromNonHumanReadable(NonHumanReadableCertificate_deserialize(w))

(***************************************************************************)
(* Message<P>, its payloads and its wire form.                             *)
(***************************************************************************)
\* ProtocolVersion::default(), what a bare #[serde(default)] would give.
default_protocol_version_zero == <<0, 0, 0>>

\* ProtocolVersion::V1_0_0, the default in absence of the field.
default_protocol_version == <<1, 0, 0>>

\* enum MessageKind.
MessageKind == {"Protocol", "Consensus", "DeployGossip", "AddressGossip",
                "DeployTransfer", "BlockTransfer", "TrieTransfer", "Other"}

\* Two payload types: one that keeps the trait's default estimate, one that
\* overrides it with the configured weights.
PayloadTypes == {"default_estimate", "weighted"}

Payloads == [type : PayloadTypes, kind : MessageKind]

\* struct PayloadWeights.
PayloadWeights == [consensus : 0..MaxWeight, deploy_requests : 0..MaxWeight]

\* Payload::classify of the payload types above.
Payload_classify(payload) == payload.kind

\* Payload::incoming_resource_estimate: the trait's default body returns 0; the
\* overriding payload type charges the weight of its traffic category.
incoming_resource_estimate(payload, weights) ==
    IF payload.type = "default_estimate" THEN 0
    ELSE CASE payload.kind = "Consensus" -> weights.consensus
           [] payload.kind = "DeployTransfer" -> weights.deploy_requests
           [] OTHER -> 0

Handshake(network_name, public_addr, protocol_version, consensus_certificate) ==
    [variant |-> "Handshake", network_name |-> network_name, public_addr |-> public_addr,
     protocol_version |-> protocol_version,
     consensus_certificate |-> consensus_certificate]

Payload(payload) == [variant |-> "Payload", payload |-> payload]

\* classify taking a handshake that carries a certificate for consensus traffic.
classify_by_certificate(self) ==
    IF self.variant = "Handshake"
    THEN IF self.consensus_certificate = <<>> THEN "Protocol" ELSE "Consensus"
    ELSE Payload_classify(self.payload)

\* Message::classify.
classify(self) ==
    IF self.variant = "Handshake" THEN "Protocol"
    ELSE Payload_classify(self.payload)

\* payload_incoming_resource_estimate that never asks the payload.
payload_incoming_resource_estimate_zero(self, weights) == 0

\* Message::payload_incoming_resource_estimate.
payload_incoming_resource_estimate(self, weights) ==
    IF self.variant = "Handshake" THEN 0
    ELSE incoming_resource_estimate(self.payload, weights)

NetworkNames == {<<"m", "a", "i", "n">>, <<"t", "e", "s", "t">>}

SocketAddrs == {[ip |-> 1, port |-> 7], [ip |-> 2, port |-> 8]}

ProtocolVersions == {<<1, 0, 0>>, <<1, 4, 2>>, <<5, 6, 7>>}

IsDigit(c) == \E n \in 1..10 : HexDigits[n] = c

\* Display / FromStr of SocketAddr, used by its human-readable serde form.
SocketAddr_to_string(a) == <<HexDigits[a.ip + 1], ":", HexDigits[a.port + 1]>>

SocketAddr_from_str(s) ==
    IF Len(s) = 3 /\ s[2] = ":" /\ IsDigit(s[1]) /\ IsDigit(s[3])
    THEN [ok |-> TRUE, value |-> [ip |-> HexValue(s[1]), port |-> HexValue(s[3])]]
    ELSE [ok |-> FALSE, err |-> "invalid socket address"]

\* Display / FromStr of ProtocolVersion, used by its human-readable serde form.
ProtocolVersion_to_string(v) ==
    <<HexDigits[v[1] + 1], ".", HexDigits[v[2] + 1], ".", HexDigits[v[3] + 1]>>

ProtocolVersion_from_str(s) ==
    IF /\ Len(s) = 5 /\ s[2] = "." /\ s[4] = "."
       /\ IsDigit(s[1]) /\ IsDigit(s[3]) /\ IsDigit(s[5])
    THEN [ok |-> TRUE, value |-> <<HexValue(s[1]), HexValue(s[3]), HexValue(s[5])>>]
    ELSE [ok |-> FALSE, err |-> "invalid protocol version"]

\* An enum on the wire: the variant index and the variant's content.
WEnum(index, content) == [k |-> index, v |-> content]

\* Option<ConsensusCertificate> on the wire, human-readable.
Option_serialize(opt) == IF opt = None THEN WNil ELSE serialize(opt[1], TRUE)

\* Message<P> with protocol_version declared first in Handshake.
serialize_message_version_first(msg) ==
    IF msg.variant = "Handshake"
    THEN WEnum(0, <<WStr(ProtocolVersion_to_string(msg.protocol_version)),
                    WStr(msg.network_name),
                    WStr(SocketAddr_to_string(msg.public_addr)),
                    Option_serialize(msg.consensus_certificate)>>)
    ELSE WEnum(1, <<[t |-> "payload", v |-> <<msg.payload>>]>>)

\* #[derive(Serialize)] enum Message<P>, under the human-readable handshake codec.
serialize_message(msg) ==
    IF msg.variant = "Handshake"
    THEN WEnum(0, <<WStr(msg.network_name),
                    WStr(SocketAddr_to_string(msg.public_addr)),
                    WStr(ProtocolVersion_to_string(msg.protocol_version)),
                    Option_serialize(msg.consensus_certificate)>>)
    ELSE WEnum(1, <<[t |-> "payload", v |-> <<msg.payload>>]>>)

NameAndAddr(network_name, addr) ==
    IF ~addr.ok THEN addr
    ELSE [ok |-> TRUE, network_name |-> network_name, public_addr |-> addr.value]

\* The first two fields shared by every generation of the handshake.
DeserializeNameAndAddr(fields) ==
    IF Len(fields) < 2 THEN [ok |-> FALSE, err |-> "invalid length"]
    ELSE IF fields[1].t # "str" \/ fields[2].t # "str"
    THEN [ok |-> FALSE, err |-> "invalid type"]
    ELSE NameAndAddr(fields[1].v, SocketAddr_from_str(fields[2].v))

DeserializePayload(fields) ==
    IF Len(fields) # 1 \/ fields[1].t # "payload"
    THEN [ok |-> FALSE, err |-> "invalid payload"]
    ELSE [ok |-> TRUE, value |-> Payload(fields[1].v[1])]

\* #[serde(default = "default_protocol_version")] protocol_version.
DeserializeProtocolVersion(fields) ==
    IF Len(fields) < 3 THEN [ok |-> TRUE, value |-> default_protocol_version]
    ELSE IF fields[3].t # "str" THEN [ok |-> FALSE, err |-> "invalid type"]
    ELSE ProtocolVersion_from_str(fields[3].v)

SomeOrError(cert) == IF ~cert.ok THEN cert ELSE [ok |-> TRUE, value |-> Some(cert.value)]

\* consensus_certificate decoded leniently: a certificate that fails to decode
\* counts as no certificate.
DeserializeConsensusCertificate_lenient(fields) ==
    IF Len(fields) < 4 THEN [ok |-> TRUE, value |-> None]
    ELSE IF fields[4].t = "nil" THEN [ok |-> TRUE, value |-> None]
    ELSE IF ~deserialize(fields[4], TRUE).ok THEN [ok |-> TRUE, value |-> None]
    ELSE SomeOrError(deserialize(fields[4], TRUE))

\* #[serde(default)] consensus_certificate: None when absent or nil, else the
\* certificate's own Deserialize, whose error is the message's error.
DeserializeConsensusCertificate(fields) ==
    IF Len(fields) < 4 THEN [ok |-> TRUE, value |-> None]
    ELSE IF fields[4].t = "nil" THEN [ok |-> TRUE, value |-> None]
    ELSE SomeOrError(deserialize(fields[4], TRUE))

\* #[derive(Deserialize)] enum Message<P>.
HandshakeOrError(head, version, cert) ==
    IF ~head.ok THEN head
    ELSE IF ~version.ok THEN version
    ELSE IF ~cert.ok THEN cert
    ELSE [ok |-> TRUE,
          value |-> Handshake(head.network_name, head.public_addr,
                              version.value, cert.value)]

deserialize_message(w) ==
    IF w.k = 0
    THEN HandshakeOrError(DeserializeNameAndAddr(w.v), DeserializeProtocolVersion(w.v),
                          DeserializeConsensusCertificate(w.v))
    ELSE IF w.k = 1 THEN DeserializePayload(w.v)
    ELSE [ok |-> FALSE, err |-> "unknown variant"]

\* tests::V1_0_0_Message::Handshake.
V1_0_0_Handshake(network_name, public_address) ==
    [variant |-> "Handshake", network_name |-> network_name,
     public_address |-> public_address]

\* #[derive(Serialize)] enum V1_0_0_Message.
V1_0_0_serialize_message(msg) ==
    IF msg.variant = "Handshake"
    THEN WEnum(0, <<WStr(msg.network_name),
                    WStr(SocketAddr_to_string(msg.public_address))>>)
    ELSE WEnum(1, <<[t |-> "payload", v |-> <<msg.payload>>]>>)

\* #[derive(Deserialize)] enum V1_0_0_Message: reads two fields, ignores the rest.
V1_0_0_HandshakeOrError(head) ==
    IF ~head.ok THEN head
    ELSE [ok |-> TRUE, value |-> V1_0_0_Handshake(head.network_name, head.public_addr)]

V1_0_0_deserialize_message(w) ==
    IF w.k = 0
    THEN V1_0_0_HandshakeOrError(DeserializeNameAndAddr(w.v))
    ELSE IF w.k = 1 THEN DeserializePayload(w.v)
    ELSE [ok |-> FALSE, err |-> "unknown variant"]

\* The handshake a casper-node 1.4.2 peer sends: version and certificate present,
\* the certificate's fields in that version's checksummed hex.
V1_4_2_serialize_message(msg) ==
    WEnum(0, <<WStr(msg.network_name),
               WStr(SocketAddr_to_string(msg.public_addr)),
               WStr(ProtocolVersion_to_string(msg.protocol_version)),
               IF msg.consensus_certificate = None THEN WNil
               ELSE WArr(<<WStr(to_hex_v1_4_2(msg.consensus_certificate[1].public_key)),
                           WStr(to_hex_v1_4_2(msg.consensus_certificate[1].signature))>>)>>)

(***************************************************************************)
(* State.                                                                  *)
(***************************************************************************)
VARIABLES
    key_pair,       \* the node's ConsensusKeyPair, shared by every handshake
    pc,             \* per connection: "idle", "created", "sent" or "received"
    certificate,    \* per connection: the certificate created on it, if any
    wire,           \* per connection: the encoded handshake in flight, if any
    outcome,        \* per connection: what the receiver decoded and validated
    last            \* the last operation applied to a message value, with its result

vars == <<key_pair, pc, certificate, wire, outcome, last>>

proto_vars == <<pc, certificate, wire, outcome>>

NoOp == [op |-> "none"]

\* The node's own handshake parameters.
OwnNetworkName == <<"m", "a", "i", "n">>

OwnPublicAddr == [ip |-> 1, port |-> 7]

OwnProtocolVersion == <<1, 4, 2>>

Init ==
    /\ key_pair \in KeyPairs
    /\ pc = [c \in ConnectionIds |-> "idle"]
    /\ certificate = [c \in ConnectionIds |-> None]
    /\ wire = [c \in ConnectionIds |-> None]
    /\ outcome = [c \in ConnectionIds |-> None]
    /\ last = NoOp

(***************************************************************************)
(* Spec: handshakes on concurrent connections.                             *)
(***************************************************************************)
\* Create through a key pair that re-derives and stores its public key when it
\* signs, as a key pair with interior mutability could.
Create_rederiving_key(c) ==
    /\ pc[c] = "idle"
    /\ certificate' = [certificate EXCEPT ![c] = Some(create(c, key_pair))]
    /\ pc' = [pc EXCEPT ![c] = "created"]
    /\ key_pair' = new(key_pair.secret_key, PublicKeyFrom(key_pair.secret_key))
    /\ UNCHANGED <<wire, outcome, last>>

\* The handshake task of connection c builds its certificate.
Create(c) ==
    /\ pc[c] = "idle"
    /\ certificate' = [certificate EXCEPT ![c] = Some(create(c, key_pair))]
    /\ pc' = [pc EXCEPT ![c] = "created"]
    /\ UNCHANGED <<key_pair, wire, outcome, last>>

\* The handshake task of connection c encodes and sends its handshake.
Send(c) ==
    /\ pc[c] = "created"
    /\ wire' = [wire EXCEPT ![c] =
                  Some(serialize_message(Handshake(OwnNetworkName, OwnPublicAddr,
                                                   OwnProtocolVersion, certificate[c])))]
    /\ pc' = [pc EXCEPT ![c] = "sent"]
    /\ UNCHANGED <<key_pair, certificate, outcome, last>>

\* Whoever observed the handshake sent on connection a presents it on connection b.
Replay(a, b) ==
    /\ a # b
    /\ wire[a] # None
    /\ pc[b] # "received"
    /\ wire[b] # wire[a]
    /\ wire' = [wire EXCEPT ![b] = wire[a]]
    /\ UNCHANGED <<key_pair, pc, certificate, outcome, last>>

\* What the receiving side of connection c makes of an encoded message: the decode
\* result and, for a handshake with a certificate, the result of validate.
Validated(c, cert) ==
    [certificate |-> cert, connection_id |-> c, result |-> validate(cert, c)]

HandleDecoded(c, decoded) ==
    IF ~decoded.ok THEN [decoded |-> FALSE, validated |-> None]
    ELSE IF decoded.value.variant # "Handshake" THEN [decoded |-> TRUE, validated |-> None]
    ELSE IF decoded.value.consensus_certificate = None
    THEN [decoded |-> TRUE, validated |-> None]
    ELSE [decoded |-> TRUE,
          validated |-> Some(Validated(c, decoded.value.consensus_certificate[1]))]

ReceiveOutcome(c, w) == HandleDecoded(c, deserialize_message(w))

\* The receiver of connection c decodes the handshake and validates its certificate.
Receive(c) ==
    /\ wire[c] # None
    /\ pc[c] # "received"
    /\ outcome' = [outcome EXCEPT ![c] = Some(ReceiveOutcome(c, wire[c][1]))]
    /\ wire' = [wire EXCEPT ![c] = None]
    /\ pc' = [pc EXCEPT ![c] = "received"]
    /\ UNCHANGED <<key_pair, certificate, last>>

Next ==
    \/ \E c \in ConnectionIds : Create(c)
    \/ \E c \in ConnectionIds : Send(c)
    \/ \E a, b \in ConnectionIds : Replay(a, b)
    \/ \E c \in ConnectionIds : Receive(c)

Spec == Init /\ [][Next]_vars

(***************************************************************************)
(* MessageSpec: the operations on certificate and message values.          *)
(***************************************************************************)
\* The certificates the node's key pair yields, one per connection identifier.
Certificates == {create(c, key_pair) : c \in ConnectionIds}

OptCertificates == {None} \cup {Some(cert) : cert \in Certificates}

Handshakes ==
    {Handshake(n, a, v, oc) : n \in NetworkNames, a \in SocketAddrs,
                               v \in ProtocolVersions, oc \in OptCertificates}

Messages == Handshakes \cup {Payload(p) : p \in Payloads}

\* The operations below are pure functions of their inputs: a behaviour applies one
\* of them, once, to an input drawn from the bounded sets above.
Fresh == last = NoOp

RoundtripRecord(certificate_, use_human_readable, serialized) ==
    [op |-> "roundtrip_certificate", use_human_readable |-> use_human_readable,
     certificate |-> certificate_, serialized |-> serialized,
     deserialized |-> deserialize(serialized, use_human_readable)]

\* tests::roundtrip_certificate: serialize, then deserialize in the same mode.
roundtrip_certificate(cert, use_human_readable) ==
    /\ Fresh
    /\ last' = RoundtripRecord(cert, use_human_readable,
                               serialize(cert, use_human_readable))
    /\ UNCHANGED <<key_pair, proto_vars>>

LegacyDecodeRecord(modern_handshake, serialized) ==
    [op |-> "v1_0_0_can_decode_current_handshake", sent |-> modern_handshake,
     serialized |-> serialized,
     received |-> V1_0_0_deserialize_message(serialized)]

\* tests::v1_0_0_can_decode_current_handshake: a current message read by a
\* version 1.0.0 peer.
v1_0_0_can_decode_current_handshake(modern_handshake) ==
    /\ Fresh
    /\ last' = LegacyDecodeRecord(modern_handshake, serialize_message(modern_handshake))
    /\ UNCHANGED <<key_pair, proto_vars>>

FromLegacyRecord(legacy_handshake, serialized) ==
    [op |-> "current_handshake_decodes_from_v1_0_0", sent |-> legacy_handshake,
     serialized |-> serialized, received |-> deserialize_message(serialized)]

\* tests::current_handshake_decodes_from_v1_0_0: a version 1.0.0 handshake read by
\* the current decoder.
current_handshake_decodes_from_v1_0_0(network_name, public_address) ==
    /\ Fresh
    /\ last' = FromLegacyRecord(
                  V1_0_0_Handshake(network_name, public_address),
                  V1_0_0_serialize_message(V1_0_0_Handshake(network_name, public_address)))
    /\ UNCHANGED <<key_pair, proto_vars>>

HexStylesRecord(handshake, from_v1_4_2, from_current) ==
    [op |-> "current_handshake_decodes_from_v1_4_2", sent |-> handshake,
     serialized_v1_4_2 |-> from_v1_4_2, serialized_current |-> from_current,
     received_v1_4_2 |-> deserialize_message(from_v1_4_2),
     received_current |-> deserialize_message(from_current)]

\* tests::current_handshake_decodes_from_historic_v1_4_2: the same handshake as a
\* 1.4.2 peer and as a current peer encode it, both read by the current decoder.
current_handshake_decodes_from_v1_4_2(handshake) ==
    /\ Fresh
    /\ last' = HexStylesRecord(handshake, V1_4_2_serialize_message(handshake),
                               serialize_message(handshake))
    /\ UNCHANGED <<key_pair, proto_vars>>

CorruptionKinds == {"non_hex", "non_hex_upper", "odd_length", "short", "long",
                    "bad_tag", "empty"}

\* A hex string damaged in transit or by a faulty sender.
CorruptString(s, kind) ==
    CASE kind = "non_hex" -> [s EXCEPT ![Len(s)] = "g"]
      [] kind = "non_hex_upper" -> [s EXCEPT ![1] = "G"]
      [] kind = "odd_length" -> SubSeq(s, 1, Len(s) - 1)
      [] kind = "short" -> SubSeq(s, 1, Len(s) - 2)
      [] kind = "long" -> s \o <<"0", "0">>
      [] kind = "bad_tag" -> <<"0", "9">> \o SubSeq(s, 3, Len(s))
      [] kind = "empty" -> <<>>

\* The handshake's wire form with one certificate field (1 = public_key,
\* 2 = signature) damaged.
CorruptField(w, field, kind) ==
    [w EXCEPT !.v[4].v[field].v = CorruptString(@, kind)]

MalformedRecord(handshake, field, kind, serialized) ==
    [op |-> "decode_malformed", sent |-> handshake, field |-> field, kind |-> kind,
     serialized |-> serialized, received |-> deserialize_message(serialized)]

\* The current decoder reads a handshake whose certificate is present and malformed.
decode_malformed(handshake, from_v1_4_2, field, kind) ==
    /\ Fresh
    /\ handshake.consensus_certificate # None
    /\ last' = MalformedRecord(handshake, field, kind,
                  CorruptField(IF from_v1_4_2 THEN V1_4_2_serialize_message(handshake)
                               ELSE serialize_message(handshake), field, kind))
    /\ UNCHANGED <<key_pair, proto_vars>>

\* The dispatcher classifies and weighs an incoming message.
classify_message(msg, weights) ==
    /\ Fresh
    /\ last' = [op |-> "classify", message |-> msg, weights |-> weights,
                kind |-> classify(msg),
                estimate |-> payload_incoming_resource_estimate(msg, weights)]
    /\ UNCHANGED <<key_pair, proto_vars>>

MessageNext ==
    \/ \E cert \in Certificates, hr \in BOOLEAN : roundtrip_certificate(cert, hr)
    \/ \E h \in Handshakes : v1_0_0_can_decode_current_handshake(h)
    \/ \E n \in NetworkNames, a \in SocketAddrs :
          current_handshake_decodes_from_v1_0_0(n, a)
    \/ \E h \in Handshakes : current_handshake_decodes_from_v1_4_2(h)
    \/ \E h \in Handshakes, old \in BOOLEAN, field \in {1, 2}, kind \in CorruptionKinds :
          decode_malformed(h, old, field, kind)
    \/ \E msg \in Messages, weights \in PayloadWeights : classify_message(msg, weights)

MessageSpec == Init /\ [][MessageNext]_vars

(***************************************************************************)
(* Properties.                                                             *)
(***************************************************************************)
\* What the receiver of connection c validated: empty, or one record.
ValidatedOn(c) == IF outcome[c] = None THEN None ELSE outcome[c][1].validated

KeyPairConsistent == PublicKeyFrom(key_pair.secret_key) = key_pair.public_key

\* C1 (anti-replay): whenever the certificate created for connection a has been
\* validated on another connection b, the result is an error, whatever the key pair
\* and whatever handshakes took place on other connections.
C1_AntiReplay ==
    \A a, b \in ConnectionIds :
        (a # b /\ certificate[a] # None) =>
            \A i \in DOMAIN ValidatedOn(b) :
                ValidatedOn(b)[i].certificate = certificate[a][1]
                    => ~ValidatedOn(b)[i].result.ok

\* A certificate of a consistent key pair was replayed from a to b and rejected
\* there, while the handshake of a third connection validated.
C1_Witness ==
    /\ KeyPairConsistent
    /\ \E a, b, c \in ConnectionIds :
          /\ a # b /\ c # a /\ c # b
          /\ certificate[a] # None
          /\ ValidatedOn(b) # None
          /\ ValidatedOn(b)[1].certificate = certificate[a][1]
          /\ ~ValidatedOn(b)[1].result.ok
          /\ ValidatedOn(c) # None
          /\ ValidatedOn(c)[1].result.ok

\* C2: validate returns Ok exactly when the signature verifies over the connection
\* identifier's bytes under the embedded key, Ok carries that embedded key, and an
\* error carries no public key.
C2_ValidateResult ==
    \A c \in ConnectionIds :
        \A i \in DOMAIN ValidatedOn(c) :
            LET v == ValidatedOn(c)[i]
            IN  /\ v.result.ok <=> crypto_verify(as_bytes(v.connection_id),
                                                 v.certificate.signature,
                                                 v.certificate.public_key).ok
                /\ v.result.ok => v.result.public_key = v.certificate.public_key
                /\ ~v.result.ok => "public_key" \notin DOMAIN v.result

\* One connection validated to Ok(public_key), another to an error.
C2_Witness ==
    \E c, d \in ConnectionIds :
        /\ ValidatedOn(c) # None /\ ValidatedOn(d) # None
        /\ ValidatedOn(c)[1].result.ok
        /\ ValidatedOn(c)[1].result.public_key = key_pair.public_key
        /\ ~ValidatedOn(d)[1].result.ok

\* C3 (round trip): in either mode, deserializing what serialize produced succeeds
\* and yields a certificate equal to the original.
C3_RoundTrip ==
    last.op = "roundtrip_certificate" =>
        /\ last.deserialized.ok
        /\ last.deserialized.value = last.certificate

\* A human-readable round trip whose hex form had to be converted in both
\* directions (the checksummed form of the key has upper-case letters).
C3_Witness ==
    /\ last.op = "roundtrip_certificate"
    /\ last.use_human_readable
    /\ HasUpper(to_hex(last.certificate.public_key))
    /\ last.deserialized.ok
    /\ last.deserialized.value = last.certificate

\* C4 (decoding defaults): a handshake carrying only network_name and the public
\* address decodes to a current Handshake with the same name and address, version
\* 1.0.0 and no certificate.
C4_DecodingDefaults ==
    last.op = "current_handshake_decodes_from_v1_0_0" =>
        /\ last.received.ok
        /\ last.received.value.variant = "Handshake"
        /\ last.received.value.network_name = last.sent.network_name
        /\ last.received.value.public_addr = last.sent.public_address
        /\ last.received.value.protocol_version = <<1, 0, 0>>
        /\ last.received.value.consensus_certificate = None

\* A two-field handshake was decoded by the current decoder.
C4_Witness ==
    /\ last.op = "current_handshake_decodes_from_v1_0_0"
    /\ Len(last.serialized.v) = 2
    /\ last.received.ok
    /\ last.received.value.protocol_version = <<1, 0, 0>>

\* C5 (forward compatibility): a current handshake with version and certificate,
\* read by a 1.0.0 peer, decodes to a Handshake with the same name and address and
\* nothing else.
C5_ForwardCompatibility ==
    (/\ last.op = "v1_0_0_can_decode_current_handshake"
     /\ last.sent.consensus_certificate # None) =>
        /\ last.received.ok
        /\ last.received.value.variant = "Handshake"
        /\ last.received.value.network_name = last.sent.network_name
        /\ last.received.value.public_address = last.sent.public_addr
        /\ DOMAIN last.received.value = {"variant", "network_name", "public_address"}

\* A four-field handshake with a certificate and a version other than the default
\* was read by the 1.0.0 decoder.
C5_Witness ==
    /\ last.op = "v1_0_0_can_decode_current_handshake"
    /\ last.sent.consensus_certificate # None
    /\ last.sent.protocol_version = <<5, 6, 7>>
    /\ Len(last.serialized.v) = 4
    /\ last.received.ok

\* C6 (hex-case tolerance): the checksummed mixed-case form of a 1.4.2 sender and the
\* lower-case form of a current sender both decode, and to the same certificate.
C6_HexCaseTolerance ==
    (/\ last.op = "current_handshake_decodes_from_v1_4_2"
     /\ last.sent.consensus_certificate # None) =>
        /\ last.received_v1_4_2.ok
        /\ last.received_current.ok
        /\ last.received_v1_4_2.value = last.received_current.value
        /\ last.received_current.value.consensus_certificate
              = last.sent.consensus_certificate

\* The two wire forms differ, only in letter case, the 1.4.2 form is in mixed case
\* and is not the current checksummed form of its bytes.
C6_Witness ==
    /\ last.op = "current_handshake_decodes_from_v1_4_2"
    /\ last.sent.consensus_certificate # None
    /\ LET mixed == last.serialized_v1_4_2.v[4].v[1].v
           lower == last.serialized_current.v[4].v[1].v
       IN  /\ mixed # lower
           /\ to_lowercase(mixed) = lower
           /\ HasUpper(mixed) /\ HasLower(mixed)
           /\ ~PublicKey_from_hex(mixed).ok
    /\ last.received_v1_4_2.ok

\* C7 (lower-case only): the human-readable form of a certificate holds no
\* upper-case letter in public_key or signature.
C7_LowercaseOnly ==
    (last.op = "roundtrip_certificate" /\ last.use_human_readable) =>
        /\ ~HasUpper(last.serialized.v[1].v)
        /\ ~HasUpper(last.serialized.v[2].v)

\* A certificate whose checksummed hex has upper-case letters in both fields was
\* serialized human-readable.
C7_Witness ==
    /\ last.op = "roundtrip_certificate"
    /\ last.use_human_readable
    /\ HasUpper(to_hex(last.certificate.public_key))
    /\ HasUpper(to_hex(last.certificate.signature))
    /\ HasLower(last.serialized.v[1].v)

\* C8: a Handshake classifies as Protocol and is estimated at 0, whatever its
\* fields and whatever the weights.
C8_HandshakeConstant ==
    (last.op = "classify" /\ last.message.variant = "Handshake") =>
        /\ last.kind = "Protocol"
        /\ last.estimate = 0

\* A handshake with a certificate was classified under non-zero weights.
C8_Witness ==
    /\ last.op = "classify"
    /\ last.message.variant = "Handshake"
    /\ last.message.consensus_certificate # None
    /\ last.weights.consensus > 0 /\ last.weights.deploy_requests > 0
    /\ last.kind = "Protocol"

\* C9 (payload delegation): for Payload(p), classify is p's classify and the
\* estimate is p's incoming_resource_estimate, which is 0 for a payload type that
\* keeps the trait's default.
C9_PayloadDelegation ==
    (last.op = "classify" /\ last.message.variant = "Payload") =>
        /\ last.kind = Payload_classify(last.message.payload)
        /\ last.estimate = incoming_resource_estimate(last.message.payload, last.weights)
        /\ last.message.payload.type = "default_estimate" => last.estimate = 0

\* A payload that overrides the estimate was charged a non-zero weight.
C9_Witness ==
    /\ last.op = "classify"
    /\ last.message.variant = "Payload"
    /\ last.message.payload.type = "weighted"
    /\ last.kind = "Consensus"
    /\ last.estimate = last.weights.consensus
    /\ last.estimate > 0

\* C10: a handshake whose certificate is present with a malformed public_key or
\* signature string fails to decode; it yields neither a certificate nor "no
\* certificate".
C10_MalformedRejected ==
    last.op = "decode_malformed" => ~last.received.ok

\* A signature string with a non-hex character was met and the decode failed.
C10_Witness ==
    /\ last.op = "decode_malformed"
    /\ last.field = 2
    /\ last.kind = "non_hex"
    /\ ~last.received.ok

\* C11 (key pair read-only): no step of any interleaving of the handshakes changes
\* the key pair's secret_key or public_key, and every certificate a handshake holds
\* is the one create yields for its own connection from that key pair alone.
C11_KeyPairReadOnly ==
    [][/\ key_pair'.secret_key = key_pair.secret_key
       /\ key_pair'.public_key = key_pair.public_key
       /\ \A c \in ConnectionIds :
             certificate'[c] # None => certificate'[c] = Some(create(c, key_pair))]_vars

\* Three handshakes interleaved on the shared key pair: one has created its
\* certificate, one has sent it, one has been received and validated, and another
\* connection's certificate was replayed meanwhile.
C11_Witness ==
    \E a, b, c \in ConnectionIds :
        /\ a # b /\ b # c /\ a # c
        /\ pc[a] = "created" /\ certificate[a] = Some(create(a, key_pair))
        /\ pc[b] = "sent" /\ certificate[b] = Some(create(b, key_pair))
        /\ pc[c] = "received" /\ certificate[c] = Some(create(c, key_pair))
        /\ ValidatedOn(c) # None
        /\ wire[a] = wire[b] /\ wire[a] # None

\* C12 (create/validate completeness): create always yields a certificate that
\* embeds the key pair's public_key as given, whether or not it corresponds to the
\* secret key; and when it does correspond, validating the certificate against the
\* connection it was created for returns Ok with that public key.
C12_CreateValidateComplete ==
    \A c \in ConnectionIds :
        certificate[c] # None =>
            /\ DOMAIN certificate[c][1] = {"public_key", "signature"}
            /\ certificate[c][1].public_key = key_pair.public_key
            /\ KeyPairConsistent =>
                  \A i \in DOMAIN ValidatedOn(c) :
                      ValidatedOn(c)[i].certificate = certificate[c][1] =>
                          /\ ValidatedOn(c)[i].result.ok
                          /\ ValidatedOn(c)[i].result.public_key = key_pair.public_key

\* With a consistent key pair, a connection's own certificate came back on that
\* connection and validated to the key pair's public key.
C12_Witness ==
    /\ KeyPairConsistent
    /\ \E c \in ConnectionIds :
          /\ certificate[c] # None
          /\ ValidatedOn(c) # None
          /\ ValidatedOn(c)[1].certificate = certificate[c][1]
          /\ ValidatedOn(c)[1].connection_id = c
          /\ ValidatedOn(c)[1].result = [ok |-> TRUE, public_key |-> key_pair.public_key]

====
